---------------------------- MODULE Spec2Model ----------------------------
(***************************************************************************)
(* Flow-field navigation of tinyswords (src/src/flowfield.rs):             *)
(*   - FlowField<N>::build_flow_field, the wavefront builder, both as a    *)
(*     pure operator and as a step-by-step machine (one loop iteration per *)
(*     step);                                                              *)
(*   - FlowFields, the cache with its passability set;                     *)
(*   - the systems update_flow_field_generation (steering updater) and     *)
(*     update_clean_flow_field_cache (janitor), and the terrain editor's   *)
(*     update_nav_data calls;                                              *)
(*   - the schedule of a tick (FlowFieldPlugin::build), with               *)
(*     debug_show_flow_field;                                              *)
(*   - world_to_grid, u8_to_vector and vector_to_u8, one call at a time.   *)
(* FlowField is generic in its side N (const N: usize), so every operator  *)
(* of the builder takes N; the game instantiates it with GRID_SIZE.        *)
(***************************************************************************)
EXTENDS Integers, Sequences, FiniteSets, TLC

\* ------------------------------------------------------------------------
\* Program constants
\* ------------------------------------------------------------------------
GRID_SIZE == 32
CELL_SIZE == 64
U8_MAX == 255
U8_MOD == 256
I32_MAX == 2147483647

UP == 0
UP_RIGHT == 1
RIGHT == 2
DOWN_RIGHT == 3
DOWN == 4
DOWN_LEFT == 5
LEFT == 6
UP_LEFT == 7
TARGET == 8
IMPASSABLE == 9

\* ------------------------------------------------------------------------
\* Bounds of the model
\* ------------------------------------------------------------------------
\* side of the grids the step-by-step builder is run on exhaustively
BuildN == 3
\* largest passability set tried on those grids
MaxBlocked == 3
\* side of the fields the cache holds in the system specification (the game
\* uses GRID_SIZE; a build on it is far too large to enumerate the cache over)
SysN == 4
\* number of actors
MaxActors == 2
\* largest component of the vectors, and largest cell index of the world
\* coordinates, the pure functions are called with
ProbeSpan == 2

\* ------------------------------------------------------------------------
\* Vectors and the grid
\* ------------------------------------------------------------------------
IVec2_MAX == <<I32_MAX, I32_MAX>>

Add(p, d) == <<p[1] + d[1], p[2] + d[2]>>

Sub(p, q) == <<p[1] - q[1], p[2] - q[2]>>

Range(s) == {s[i] : i \in 1..Len(s)}

\* the cells of an N x N field
Grid(N) == (0..(N - 1)) \X (0..(N - 1))

\* IRect::new(0, 0, N - 1, N - 1).contains(p): both corners inclusive
grid_area_contains(N, p) ==
    /\ 0 <= p[1] /\ p[1] <= N - 1
    /\ 0 <= p[2] /\ p[2] <= N - 1

\* [up, right, down, left]
orthogonal(root) ==
    << Add(root, <<0, 1>>), Add(root, <<1, 0>>),
       Add(root, <<0, -1>>), Add(root, <<-1, 0>>) >>

\* the diagonal neighbours with the left-hand ones left out
diagonals_RightOnly(root) ==
    << Add(root, <<1, 1>>), Add(root, <<1, -1>>),
       Add(root, <<1, -1>>), Add(root, <<1, 1>>) >>

\* [up_right, down_right, down_left, up_left]
diagonals(root) ==
    << Add(root, <<1, 1>>), Add(root, <<1, -1>>),
       Add(root, <<-1, -1>>), Add(root, <<-1, 1>>) >>

\* ------------------------------------------------------------------------
\* Direction encoding
\* ------------------------------------------------------------------------
Ok(v) == [ok |-> TRUE, v |-> v]

Err(e) == [ok |-> FALSE, err |-> e]

u8_to_vector(value) ==
    CASE value = 0 -> Ok(<<0, 1>>)
      [] value = 1 -> Ok(<<1, 1>>)
      [] value = 2 -> Ok(<<1, 0>>)
      [] value = 3 -> Ok(<<1, -1>>)
      [] value = 4 -> Ok(<<0, -1>>)
      [] value = 5 -> Ok(<<-1, -1>>)
      [] value = 6 -> Ok(<<-1, 0>>)
      [] value = 7 -> Ok(<<-1, 1>>)
      [] value = 8 -> Ok(<<0, 0>>)
      [] value = U8_MAX -> Ok(<<0, 0>>)
      [] value = IMPASSABLE -> Ok(<<0, 0>>)
      [] OTHER -> Err("direction not recognised")

\* the encoding that stores the code of the opposite vector
vector_to_u8_Opposite(vec) ==
    LET codes == {k \in 0..8 : u8_to_vector(k).v = <<-vec[1], -vec[2]>>}
    IN  IF codes = {} THEN Err("direction not recognised")
        ELSE Ok(CHOOSE k \in codes : TRUE)

vector_to_u8(vec) ==
    CASE vec = <<0, 1>> -> Ok(0)
      [] vec = <<1, 1>> -> Ok(1)
      [] vec = <<1, 0>> -> Ok(2)
      [] vec = <<1, -1>> -> Ok(3)
      [] vec = <<0, -1>> -> Ok(4)
      [] vec = <<-1, -1>> -> Ok(5)
      [] vec = <<-1, 0>> -> Ok(6)
      [] vec = <<-1, 1>> -> Ok(7)
      [] vec = <<0, 0>> -> Ok(8)
      [] OTHER -> Err("direction not recognised")

\* ------------------------------------------------------------------------
\* FlowField<N>::build_flow_field
\* ------------------------------------------------------------------------
\* The loop state is a record
\*   [status, queue, seen, costs, field, popped]
\* status "loop" while the wavefront runs; afterwards the outcome:
\*   "Ok", "TargetBlocked", "OutOfBounds", "NoPathFound",
\*   "IndexPanic" (set_grid indexes outside the array) or
\*   "OverflowPanic" (u8 addition overflows with overflow checks on).
\* popped (the cells dequeued so far, in order) is bookkeeping of the model.

\* before the call
NotStarted ==
    [status |-> "idle", queue |-> <<>>, seen |-> {}, costs |-> <<>>,
     field |-> <<>>, popped |-> <<>>]

Stopped(b, outcome) == [b EXCEPT !.status = outcome]

\* BuildStart with the bounds check made before the membership check
BuildStart_BoundsFirst(N, target, impassable) ==
    LET blank == [status |-> "loop", queue |-> <<>>, seen |-> {},
                  costs |-> [c \in Grid(N) |-> 0],
                  field |-> [c \in Grid(N) |-> 0],
                  popped |-> <<>>]
    IN  IF ~grid_area_contains(N, target)
          THEN Stopped(blank, "OutOfBounds")
        ELSE IF target \in impassable
          THEN Stopped(blank, "TargetBlocked")
        ELSE IF \E blocked \in impassable : ~grid_area_contains(N, blocked)
          THEN Stopped(blank, "IndexPanic")
        ELSE [blank EXCEPT
                !.queue = <<target>>,
                !.seen = {target} \cup impassable,
                !.costs = [c \in Grid(N) |->
                             IF c \in impassable THEN U8_MAX ELSE 0]]

\* lines 165-185: the checks and the seeding, up to the loop
BuildStart(N, target, impassable) ==
    LET blank == [status |-> "loop", queue |-> <<>>, seen |-> {},
                  costs |-> [c \in Grid(N) |-> 0],
                  field |-> [c \in Grid(N) |-> 0],
                  popped |-> <<>>]
    IN  IF target \in impassable
          THEN Stopped(blank, "TargetBlocked")
        ELSE IF ~grid_area_contains(N, target)
          THEN Stopped(blank, "OutOfBounds")
        ELSE IF \E blocked \in impassable : ~grid_area_contains(N, blocked)
          THEN Stopped(blank, "IndexPanic")
        ELSE [blank EXCEPT
                !.queue = <<target>>,
                !.seen = {target} \cup impassable,
                !.costs = [c \in Grid(N) |->
                             IF c \in impassable THEN U8_MAX ELSE 0]]

\* u8 addition: with overflow checks the build panics, without it wraps
OverflowsU8(a, inc) == a + inc > U8_MAX

WrappingAddU8(a, inc) == (a + inc) % U8_MOD

\* lines 202-213: one of the two visiting loops, positions pos[i..4].
\* checks: the build's overflow checks (on in a debug profile, off in release).
RECURSIVE Visit(_, _, _, _, _, _, _)
Visit(N, checks, b, pos, i, cost, inc) ==
    IF i > Len(pos) \/ b.status # "loop" THEN b
    ELSE LET p == pos[i]
             fresh == p \notin b.seen
             b1 == [b EXCEPT !.seen = @ \cup {p}]
         IN  IF fresh /\ grid_area_contains(N, p)
               THEN IF checks /\ OverflowsU8(cost, inc)
                      THEN Stopped([b1 EXCEPT !.queue = Append(@, p)],
                                   "OverflowPanic")
                      ELSE Visit(N, checks,
                                 [b1 EXCEPT
                                    !.queue = Append(@, p),
                                    !.costs[p] = WrappingAddU8(cost, inc)],
                                 pos, i + 1, cost, inc)
               ELSE Visit(N, checks, b1, pos, i + 1, cost, inc)

\* lines 214-234: the scan for the cheapest neighbour, positions pos[i..]
RECURSIVE ScanMin(_, _, _, _, _, _)
ScanMin(N, costs, root, pos, i, best) ==
    IF i > Len(pos) THEN best
    ELSE LET p == pos[i]
         IN  IF grid_area_contains(N, p) /\ best.min_cost > costs[p]
               THEN ScanMin(N, costs, root, pos, i + 1,
                            [dir |-> Sub(p, root), min_cost |-> costs[p]])
               ELSE ScanMin(N, costs, root, pos, i + 1, best)

\* the scan that compares the neighbours in the opposite order
ScanOrder_Backwards(root) ==
    LET forwards == diagonals(root) \o orthogonal(root)
    IN  [i \in 1..Len(forwards) |-> forwards[Len(forwards) + 1 - i]]

\* the order the neighbours are compared in: diagonals, then orthogonals
ScanOrder(root) == diagonals(root) \o orthogonal(root)

\* lines 189-244: one iteration of `while let Some(root) = queue.pop_front()`
BuildIter(N, checks, b) ==
    LET root == Head(b.queue)
        cost == b.costs[root]
        b0 == [b EXCEPT !.queue = Tail(@), !.popped = Append(@, root)]
        b1 == Visit(N, checks, b0, orthogonal(root), 1, cost, 1)
        b2 == Visit(N, checks, b1, diagonals(root), 1, cost, 2)
        best == ScanMin(N, b2.costs, root, ScanOrder(root), 1,
                        [dir |-> IVec2_MAX, min_cost |-> U8_MAX])
        code == vector_to_u8(best.dir)
    IN  IF b2.status # "loop"
          THEN b2
        ELSE IF best.dir = IVec2_MAX \/ best.min_cost = U8_MAX
          THEN Stopped(b2, "NoPathFound")
        ELSE IF ~code.ok
          THEN Stopped(b2, "DirectionNotRecognised")
        ELSE [b2 EXCEPT !.field[root] = code.v]

\* lines 245-250: after the loop
BuildFinish(target, impassable, b) ==
    [b EXCEPT
       !.status = "Ok",
       !.field = [c \in DOMAIN b.field |->
                    IF c = target THEN IMPASSABLE
                    ELSE IF c \in impassable THEN U8_MAX
                    ELSE b.field[c]]]

RECURSIVE BuildLoop(_, _, _, _, _)
BuildLoop(N, checks, target, impassable, b) ==
    IF b.status # "loop" THEN b
    ELSE IF b.queue = <<>> THEN BuildFinish(target, impassable, b)
    ELSE BuildLoop(N, checks, target, impassable, BuildIter(N, checks, b))

\* the whole function: the final loop state, whose status is the outcome
build_flow_field(N, checks, target, impassable) ==
    BuildLoop(N, checks, target, impassable, BuildStart(N, target, impassable))

\* ------------------------------------------------------------------------
\* State
\* ------------------------------------------------------------------------
VARIABLES
    impassable,  \* FlowFields.impassable
    fields,      \* FlowFields.fields: target cell -> field
    actors,      \* the FlowFieldActor entities: id -> NoActor or
                 \*   [target, translation, steering]
    crashed,     \* a system has panicked: the app is gone
    last,        \* bookkeeping: the last operation and the calls it made
    served,      \* bookkeeping: target cell -> the field the latest
                 \*   get_or_generate returned for it, dropped on eviction
    recent,      \* bookkeeping: the cells whose most recent set_* call was
                 \*   set_impassable
    bn,          \* builder run: the side N of the field being built
    bchecks,     \* builder run: whether the build has overflow checks
    btarget,     \* builder run: the target cell
    bimpassable, \* builder run: the passability set handed to the build
    bstate,      \* builder run: the loop state of build_flow_field
    ran,         \* schedule: the systems that have run in the present tick
    probe        \* one application of a pure function: input and result

svars == <<impassable, fields, actors, crashed, last, served, recent>>

bvars == <<bn, bchecks, btarget, bimpassable, bstate>>

tvars == <<ran>>

pvars == <<probe>>

vars == <<impassable, fields, actors, crashed, last, served, recent,
          bn, bchecks, btarget, bimpassable, bstate, ran, probe>>

\* ------------------------------------------------------------------------
\* Grid Mapper and sampling
\* ------------------------------------------------------------------------
\* A world coordinate is an f32, modelled as [beyond, units]: the float
\* beyond * 2^32 + units, with the fraction, which the cast drops, left
\* out. F32(x) is the float of the integer x; Beyond(m) is m * 2^32, past
\* every u32.
F32(x) == [beyond |-> 0, units |-> x]

Beyond(m) == [beyond |-> m, units |-> 0]

\* u32::MAX / (CELL_SIZE as u32)
U32_MAX_CELLS == 2 * (I32_MAX \div CELL_SIZE + 1) - 1

\* the cast that takes a negative float to its magnitude
as_u32_Magnitude(f) ==
    IF f.beyond > 0 THEN [saturated |-> TRUE, units |-> 0]
    ELSE [saturated |-> FALSE, units |-> IF f.units < 0 THEN -f.units ELSE f.units]

\* Vec2::as_uvec2, one component: the cast of a float to u32 truncates and
\* saturates at both ends. The result is [saturated, units]: u32::MAX, or
\* the u32 units.
as_u32(f) ==
    IF f.beyond > 0 THEN [saturated |-> TRUE, units |-> 0]
    ELSE [saturated |-> FALSE, units |-> IF f.units < 0 THEN 0 ELSE f.units]

\* UVec2 / UVec2::splat(CELL_SIZE as u32), one component
DivCell(u) == IF u.saturated THEN U32_MAX_CELLS ELSE u.units \div CELL_SIZE

\* world_to_grid on a pair of floats
world_to_grid_f32(world_pos) ==
    <<DivCell(as_u32(world_pos[1])), DivCell(as_u32(world_pos[2]))>>

\* world_to_grid on a position with integer coordinates
world_to_grid(world_pos) ==
    world_to_grid_f32(<<F32(world_pos[1]), F32(world_pos[2])>>)

\* FlowField::get: the vector stored for the cell of a world position, or
\* the panic of the array index or of the expect
field_get(N, field, world_translation) ==
    LET grid_pos == world_to_grid(world_translation)
    IN  IF ~(grid_pos[1] < N /\ grid_pos[2] < N)
          THEN Err("IndexPanic")
        ELSE LET vec == u8_to_vector(field[grid_pos])
             IN  IF vec.ok THEN vec ELSE Err("ExpectPanic")

\* A steering vector is [kind, v]: kind "vec" for the vector v itself,
\* kind "unit" for the unit vector in the direction of v
Vec(v) == [kind |-> "vec", v |-> v]

ZERO == Vec(<<0, 0>>)

\* the fallback that normalizes without looking for a zero difference
normalize_or_zero_Unchecked(d) == [kind |-> "unit", v |-> d]

\* the fallback that stops the actor
normalize_or_zero_Stop(d) == ZERO

normalize_or_zero(d) ==
    IF d = <<0, 0>> THEN ZERO ELSE [kind |-> "unit", v |-> d]

\* ------------------------------------------------------------------------
\* FlowFields: the cache
\* ------------------------------------------------------------------------
EmptyMap == [k \in {} |-> 0]

Put(m, k, v) == [x \in DOMAIN m \cup {k} |-> IF x = k THEN v ELSE m[x]]

Restrict(m, S) == [x \in DOMAIN m \cap S |-> m[x]]

\* the build profile of the game: on a field of side SysN no cost comes near
\* U8_MAX, so both profiles build the same fields
SysChecks == FALSE

\* get_or_generate without the lookup: every call builds
get_or_generate_Rebuild(fs, imp, target) ==
    LET b == build_flow_field(SysN, SysChecks, target, imp)
    IN  IF b.status = "Ok"
          THEN [fields |-> Put(fs, target, b.field), ok |-> TRUE,
                ret |-> b.field, built |-> TRUE, outcome |-> "Ok"]
          ELSE [fields |-> fs, ok |-> FALSE, ret |-> <<>>,
                built |-> TRUE, outcome |-> b.status]

\* get_or_generate that hands out a new field without caching it
get_or_generate_NoInsert(fs, imp, target) ==
    IF target \in DOMAIN fs
      THEN [fields |-> fs, ok |-> TRUE, ret |-> fs[target], built |-> FALSE,
            outcome |-> "Hit"]
      ELSE LET b == build_flow_field(SysN, SysChecks, target, imp)
           IN  IF b.status = "Ok"
                 THEN [fields |-> fs, ok |-> TRUE,
                       ret |-> b.field, built |-> TRUE, outcome |-> "Ok"]
                 ELSE [fields |-> fs, ok |-> FALSE, ret |-> <<>>,
                       built |-> TRUE, outcome |-> b.status]

\* get_or_generate that builds on open terrain, whatever the passability set
get_or_generate_Blind(fs, imp, target) ==
    IF target \in DOMAIN fs
      THEN [fields |-> fs, ok |-> TRUE, ret |-> fs[target], built |-> FALSE,
            outcome |-> "Hit"]
      ELSE LET b == build_flow_field(SysN, SysChecks, target, {})
           IN  IF b.status = "Ok"
                 THEN [fields |-> Put(fs, target, b.field), ok |-> TRUE,
                       ret |-> b.field, built |-> TRUE, outcome |-> "Ok"]
                 ELSE [fields |-> fs, ok |-> FALSE, ret |-> <<>>,
                       built |-> TRUE, outcome |-> b.status]

\* FlowFields::get_or_generate on the cache (fs, imp): the cache afterwards,
\* the field returned, whether a build ran, and whether the call panicked
\* (the expect on a failed build, or a panic inside the build)
get_or_generate(fs, imp, target) ==
    IF target \in DOMAIN fs
      THEN [fields |-> fs, ok |-> TRUE, ret |-> fs[target], built |-> FALSE,
            outcome |-> "Hit"]
      ELSE LET b == build_flow_field(SysN, SysChecks, target, imp)
           IN  IF b.status = "Ok"
                 THEN [fields |-> Put(fs, target, b.field), ok |-> TRUE,
                       ret |-> b.field, built |-> TRUE, outcome |-> "Ok"]
                 ELSE [fields |-> fs, ok |-> FALSE, ret |-> <<>>,
                       built |-> TRUE, outcome |-> b.status]

\* FlowFields::is_walkable
is_walkable(imp, world_pos) == world_to_grid(world_pos) \notin imp

\* ------------------------------------------------------------------------
\* Actors
\* ------------------------------------------------------------------------
ActorIds == 1..MaxActors

NoActor ==
    [live |-> FALSE, target |-> <<0, 0>>, translation |-> <<0, 0>>,
     steering |-> ZERO]

\* FlowFieldActor::new(target) on an entity placed at translation
NewActor(target, translation) ==
    [live |-> TRUE, target |-> target, translation |-> translation,
     steering |-> ZERO]

Live(as) == {i \in DOMAIN as : as[i].live}

\* the centre of a cell, in world coordinates
Centre(c) ==
    <<c[1] * CELL_SIZE + CELL_SIZE \div 2, c[2] * CELL_SIZE + CELL_SIZE \div 2>>

\* where orders send actors: two cells of the grid and one outside it
TargetPoints == {Centre(<<0, 0>>), Centre(<<3, 3>>), Centre(<<SysN, 0>>)}

\* where actors stand: at the first target, elsewhere in its cell, in
\* another cell, in a cell the editor changes, outside the grid
ActorPoints ==
    {Centre(<<0, 0>>), <<48, 16>>, Centre(<<2, 1>>), Centre(<<1, 1>>),
     Centre(<<0, SysN>>)}

\* where the actors of the cache's specification are put
SpawnPoints == {Centre(<<2, 1>>)}

\* the cells the terrain editor changes
EditCells == {<<1, 1>>, <<3, 3>>}

\* ------------------------------------------------------------------------
\* update_flow_field_generation
\* ------------------------------------------------------------------------
\* The loop over the actors, from actor i on. st is
\*   [fields, actors, served, calls, ok]
\* calls logs each get_or_generate: its target, the field served for that
\* target before (if any), whether it built, what it returned.
Option(m, k) ==
    IF k \in DOMAIN m THEN [some |-> TRUE, field |-> m[k]]
    ELSE [some |-> FALSE, field |-> <<>>]

\* lines 282-292: the body of the loop for one actor
UpdateActor(st, imp, i) ==
    LET actor == st.actors[i]
        target_pos == world_to_grid(actor.target)
        g == get_or_generate(st.fields, imp, target_pos)
        call == [actor |-> i, target |-> target_pos,
                 prior |-> Option(st.served, target_pos),
                 built |-> g.built, ok |-> g.ok, outcome |-> g.outcome,
                 ret |-> g.ret]
        st1 == [st EXCEPT !.fields = g.fields, !.calls = Append(@, call)]
    IN  IF ~g.ok THEN [st1 EXCEPT !.ok = FALSE]
        ELSE LET steering == field_get(SysN, g.ret, actor.translation)
                 st2 == [st1 EXCEPT !.served = Put(@, target_pos, g.ret)]
             IN  IF ~steering.ok THEN [st2 EXCEPT !.ok = FALSE]
                 ELSE IF steering.v = <<0, 0>>
                   THEN [st2 EXCEPT !.actors[i].steering =
                           normalize_or_zero(Sub(actor.target, actor.translation))]
                 ELSE [st2 EXCEPT !.actors[i].steering = Vec(steering.v)]

RECURSIVE UpdateLoop(_, _, _)
UpdateLoop(st, imp, i) ==
    IF i > MaxActors \/ ~st.ok THEN st
    ELSE IF ~st.actors[i].live THEN UpdateLoop(st, imp, i + 1)
    ELSE UpdateLoop(UpdateActor(st, imp, i), imp, i + 1)

\* lines 277-294, on the cache and the actors
RunUpdater ==
    /\ ~crashed
    /\ \E st \in {UpdateLoop([fields |-> fields, actors |-> actors,
                               served |-> served, calls |-> <<>>, ok |-> TRUE],
                              impassable, 1)} :
           /\ fields' = st.fields
           /\ actors' = st.actors
           /\ served' = st.served
           /\ crashed' = ~st.ok
           /\ last' = [op |-> "update", calls |-> st.calls, evicted |-> {}]
    /\ UNCHANGED <<impassable, recent>>

update_flow_field_generation == RunUpdater /\ UNCHANGED <<bvars, tvars, pvars>>

\* ------------------------------------------------------------------------
\* update_clean_flow_field_cache
\* ------------------------------------------------------------------------
\* the targets in use taken from the first live actor only
in_use_FirstOnly(as) ==
    {world_to_grid(as[i].target) :
        i \in {j \in Live(as) : \A k \in Live(as) : j <= k}}

\* lines 301-304
in_use(as) == {world_to_grid(as[i].target) : i \in Live(as)}

\* the janitor that removes nothing
CleanCache_KeepsAll(fs, as) == fs

\* the janitor that removes one unused key per run
CleanCache_OnePerRun(fs, as) ==
    LET unused == DOMAIN fs \ in_use(as)
    IN  IF unused = {} THEN fs
        ELSE Restrict(fs, DOMAIN fs \ {CHOOSE k \in unused : TRUE})

\* lines 305-314: the cache with the keys not in use removed
CleanCache(fs, as) == Restrict(fs, DOMAIN fs \ (DOMAIN fs \ in_use(as)))

\* lines 297-315, on the cache
RunJanitor ==
    /\ ~crashed
    /\ fields' = CleanCache(fields, actors)
    /\ served' = Restrict(served, DOMAIN served \ (DOMAIN fields \ DOMAIN fields'))
    /\ last' = [op |-> "clean", calls |-> <<>>,
                evicted |-> DOMAIN fields \ DOMAIN fields']
    /\ UNCHANGED <<impassable, actors, crashed, recent>>

update_clean_flow_field_cache == RunJanitor /\ UNCHANGED <<bvars, tvars, pvars>>

\* ------------------------------------------------------------------------
\* The terrain editor and the actors' owner
\* ------------------------------------------------------------------------
Other == [op |-> "other", calls |-> <<>>, evicted |-> {}]

\* set_impassable that inserts nothing
Inserted_Nothing(imp, point) == imp

\* lines 49-51 and 53-55, on the set
Inserted(imp, point) == imp \cup {point}

\* set_passable that removes nothing
Removed_Nothing(imp, point) == imp

Removed(imp, point) == imp \ {point}

\* set_impassable that also drops every cached field
SetImpassable_Invalidating(ff, point) ==
    [fields |-> EmptyMap, impassable |-> Inserted(ff.impassable, point)]

\* FlowFields::set_impassable and FlowFields::set_passable on the resource
\* ff = [fields, impassable]
SetImpassable(ff, point) == [ff EXCEPT !.impassable = Inserted(@, point)]

SetPassable(ff, point) == [ff EXCEPT !.impassable = Removed(@, point)]

set_impassable(point) ==
    /\ ~crashed
    /\ \E ff \in {SetImpassable([fields |-> fields, impassable |-> impassable], point)} :
           /\ fields' = ff.fields
           /\ impassable' = ff.impassable
    /\ recent' = recent \cup {point}
    /\ last' = Other
    /\ UNCHANGED <<actors, crashed, served, bvars, tvars, pvars>>

set_passable(point) ==
    /\ ~crashed
    /\ \E ff \in {SetPassable([fields |-> fields, impassable |-> impassable], point)} :
           /\ fields' = ff.fields
           /\ impassable' = ff.impassable
    /\ recent' = recent \ {point}
    /\ last' = Other
    /\ UNCHANGED <<actors, crashed, served, bvars, tvars, pvars>>

Spawn(i, target, translation) ==
    /\ ~crashed
    /\ ~actors[i].live
    /\ actors' = [actors EXCEPT ![i] = NewActor(target, translation)]
    /\ last' = Other
    /\ UNCHANGED <<impassable, fields, crashed, served, recent, bvars, tvars, pvars>>

Despawn(i) ==
    /\ ~crashed
    /\ actors[i].live
    /\ actors' = [actors EXCEPT ![i] = NoActor]
    /\ last' = Other
    /\ UNCHANGED <<impassable, fields, crashed, served, recent, bvars, tvars, pvars>>

Order(i, target) ==
    /\ ~crashed
    /\ actors[i].live
    /\ actors[i].target # target
    /\ actors' = [actors EXCEPT ![i].target = target]
    /\ last' = Other
    /\ UNCHANGED <<impassable, fields, crashed, served, recent, bvars, tvars, pvars>>

Move(i, translation) ==
    /\ ~crashed
    /\ actors[i].live
    /\ actors[i].translation # translation
    /\ actors' = [actors EXCEPT ![i].translation = translation]
    /\ last' = Other
    /\ UNCHANGED <<impassable, fields, crashed, served, recent, bvars, tvars, pvars>>

\* no pure function is being applied
NoProbe ==
    [fn |-> "none", arg |-> <<>>, ret |-> Err("none"), back |-> Err("none"),
     stage |-> "idle"]

Init ==
    /\ impassable = {}
    /\ fields = EmptyMap
    /\ actors = [i \in ActorIds |-> NoActor]
    /\ crashed = FALSE
    /\ last = [op |-> "init", calls |-> <<>>, evicted |-> {}]
    /\ served = EmptyMap
    /\ recent = {}
    /\ bn = 0
    /\ bchecks = FALSE
    /\ btarget = <<0, 0>>
    /\ bimpassable = {}
    /\ bstate = NotStarted
    /\ ran = {}
    /\ probe = NoProbe

Next ==
    \/ update_flow_field_generation
    \/ update_clean_flow_field_cache
    \/ \E c \in EditCells : set_impassable(c)
    \/ \E c \in EditCells : set_passable(c)
    \/ \E i \in ActorIds, t \in TargetPoints, p \in SpawnPoints : Spawn(i, t, p)
    \/ \E i \in ActorIds : Despawn(i)
    \/ \E i \in ActorIds, t \in TargetPoints : Order(i, t)

Spec == Init /\ [][Next]_vars

\* ------------------------------------------------------------------------
\* The schedule of a tick
\* ------------------------------------------------------------------------
\* FlowFieldPlugin::build adds the three systems to Update as one tuple with
\* a run condition and no ordering between them: each runs once in a tick,
\* in an order the scheduler picks.
Systems == {"update_flow_field_generation", "debug_show_flow_field",
            "update_clean_flow_field_cache"}

\* lines 317-343: draws the cached field of each marked actor and changes
\* nothing; the unwrap panics on a code without a vector
DebugPanics(fs, as, marked) ==
    \E i \in marked :
       LET target_pos == world_to_grid(as[i].target)
       IN  /\ target_pos \in DOMAIN fs
           /\ \E c \in DOMAIN fs[target_pos] : ~u8_to_vector(fs[target_pos][c]).ok

RunDebug ==
    /\ ~crashed
    /\ \E marked \in SUBSET Live(actors) :
           crashed' = DebugPanics(fields, actors, marked)
    /\ last' = Other
    /\ UNCHANGED <<impassable, fields, actors, served, recent>>

TickUpdater ==
    /\ "update_flow_field_generation" \notin ran
    /\ RunUpdater
    /\ ran' = ran \cup {"update_flow_field_generation"}
    /\ UNCHANGED <<bvars, pvars>>

TickDebug ==
    /\ "debug_show_flow_field" \notin ran
    /\ RunDebug
    /\ ran' = ran \cup {"debug_show_flow_field"}
    /\ UNCHANGED <<bvars, pvars>>

TickJanitor ==
    /\ "update_clean_flow_field_cache" \notin ran
    /\ RunJanitor
    /\ ran' = ran \cup {"update_clean_flow_field_cache"}
    /\ UNCHANGED <<bvars, pvars>>

\* the tick is over once each system has run
EndTick ==
    /\ ~crashed
    /\ ran = Systems
    /\ ran' = {}
    /\ UNCHANGED <<svars, bvars, pvars>>

NextTick ==
    \/ TickUpdater
    \/ TickDebug
    \/ TickJanitor
    \/ EndTick
    \/ \E c \in EditCells : set_impassable(c)
    \/ \E c \in EditCells : set_passable(c)
    \/ \E i \in ActorIds, t \in TargetPoints, p \in SpawnPoints : Spawn(i, t, p)
    \/ \E i \in ActorIds : Despawn(i)
    \/ \E i \in ActorIds, t \in TargetPoints : Order(i, t)

SpecTick == Init /\ [][NextTick]_vars

\* ------------------------------------------------------------------------
\* Actors on the move
\* ------------------------------------------------------------------------
\* One actor, the walker, is placed anywhere, walks and is re-ordered; the
\* others stand at a spawn point with the far target and share the cache.
Walker == CHOOSE i \in ActorIds : \A j \in ActorIds : i <= j

NextSteer ==
    \/ update_flow_field_generation
    \/ update_clean_flow_field_cache
    \/ \E c \in EditCells : set_impassable(c)
    \/ \E c \in EditCells : set_passable(c)
    \/ \E t \in TargetPoints, p \in ActorPoints : Spawn(Walker, t, p)
    \/ \E i \in ActorIds \ {Walker}, p \in SpawnPoints :
          Spawn(i, Centre(<<3, 3>>), p)
    \/ \E p \in ActorPoints : Move(Walker, p)
    \/ \E t \in TargetPoints : Order(Walker, t)

SpecSteer == Init /\ [][NextSteer]_vars

\* ------------------------------------------------------------------------
\* The builder, step by step
\* ------------------------------------------------------------------------
\* cells a caller can name on a field of side N: the grid and, past each
\* edge, one cell outside it
CellsAround(N) == Grid(N) \cup {<<N, 0>>, <<0, N>>, <<N, N>>}

SmallSets(S, k) == {s \in SUBSET S : Cardinality(s) <= k}

\* A passability set that folds the GRID_SIZE grid into one corridor: every
\* odd row is blocked except for one gap, at alternating ends
Serpentine ==
    {c \in Grid(GRID_SIZE) :
        /\ c[2] % 2 = 1
        /\ c[1] # (IF (c[2] \div 2) % 2 = 0 THEN GRID_SIZE - 1 ELSE 0)}

BuildInputs ==
    {[N |-> BuildN, checks |-> FALSE, target |-> t, impassable |-> s] :
        t \in CellsAround(BuildN),
        s \in SmallSets(CellsAround(BuildN), MaxBlocked)}
    \cup
    {[N |-> GRID_SIZE, checks |-> c, target |-> <<0, 0>>,
      impassable |-> Serpentine] : c \in BOOLEAN}

\* the cache while only the builder is exercised
SysIdle ==
    /\ impassable = {}
    /\ fields = EmptyMap
    /\ actors = [i \in ActorIds |-> NoActor]
    /\ crashed = FALSE
    /\ last = [op |-> "init", calls |-> <<>>, evicted |-> {}]
    /\ served = EmptyMap
    /\ recent = {}

InitBuild ==
    /\ \E i \in BuildInputs :
          /\ bn = i.N
          /\ bchecks = i.checks
          /\ btarget = i.target
          /\ bimpassable = i.impassable
    /\ bstate = NotStarted
    /\ SysIdle
    /\ ran = {}
    /\ probe = NoProbe

StepStart ==
    /\ bstate.status = "idle"
    /\ bstate' = BuildStart(bn, btarget, bimpassable)
    /\ UNCHANGED <<bn, bchecks, btarget, bimpassable>>
    /\ UNCHANGED <<svars, tvars, pvars>>

StepIter ==
    /\ bstate.status = "loop"
    /\ bstate.queue # <<>>
    /\ bstate' = BuildIter(bn, bchecks, bstate)
    /\ UNCHANGED <<bn, bchecks, btarget, bimpassable>>
    /\ UNCHANGED <<svars, tvars, pvars>>

StepFinish ==
    /\ bstate.status = "loop"
    /\ bstate.queue = <<>>
    /\ bstate' = BuildFinish(btarget, bimpassable, bstate)
    /\ UNCHANGED <<bn, bchecks, btarget, bimpassable>>
    /\ UNCHANGED <<svars, tvars, pvars>>

NextBuild == StepStart \/ StepIter \/ StepFinish

SpecBuild == InitBuild /\ [][NextBuild]_vars

\* ------------------------------------------------------------------------
\* The pure functions, one call at a time
\* ------------------------------------------------------------------------
\* vectors with components in -ProbeSpan..ProbeSpan
ProbeVectors == (-ProbeSpan..ProbeSpan) \X (-ProbeSpan..ProbeSpan)

ProbeCodes == 0..U8_MAX

\* world coordinates: the first, second and last unit of the cells around
\* the origin, the largest integer, and floats past u32::MAX
ProbeCoords ==
    {F32(k * CELL_SIZE + r) :
        k \in -ProbeSpan..ProbeSpan, r \in {0, 1, CELL_SIZE - 1}}
    \cup {F32(I32_MAX), Beyond(1), Beyond(2)}

Probe(fn, arg) ==
    [fn |-> fn, arg |-> arg, ret |-> Err("none"), back |-> Err("none"),
     stage |-> "ready"]

VectorProbes == {Probe("vector_to_u8", v) : v \in ProbeVectors}

CodeProbes == {Probe("u8_to_vector", k) : k \in ProbeCodes}

PositionProbes ==
    {Probe("world_to_grid", <<x, y>>) : x \in ProbeCoords, y \in ProbeCoords}

InitPure ==
    /\ \/ probe \in VectorProbes
       \/ probe \in CodeProbes
       \/ probe \in PositionProbes
    /\ SysIdle
    /\ bn = 0
    /\ bchecks = FALSE
    /\ btarget = <<0, 0>>
    /\ bimpassable = {}
    /\ bstate = NotStarted
    /\ ran = {}

Call_vector_to_u8 ==
    /\ probe.stage = "ready"
    /\ probe.fn = "vector_to_u8"
    /\ probe' = [probe EXCEPT !.ret = vector_to_u8(probe.arg), !.stage = "returned"]
    /\ UNCHANGED <<svars, bvars, tvars>>

Call_u8_to_vector ==
    /\ probe.stage = "ready"
    /\ probe.fn = "u8_to_vector"
    /\ probe' = [probe EXCEPT !.ret = u8_to_vector(probe.arg), !.stage = "returned"]
    /\ UNCHANGED <<svars, bvars, tvars>>

Call_world_to_grid ==
    /\ probe.stage = "ready"
    /\ probe.fn = "world_to_grid"
    /\ probe' = [probe EXCEPT !.ret = Ok(world_to_grid_f32(probe.arg)), !.stage = "returned"]
    /\ UNCHANGED <<svars, bvars, tvars>>

\* the result of an encoding decoded, the result of a decoding encoded
CallBack ==
    /\ probe.stage = "returned"
    /\ probe.fn \in {"vector_to_u8", "u8_to_vector"}
    /\ probe.ret.ok
    /\ probe' = [probe EXCEPT
                   !.back = IF probe.fn = "vector_to_u8"
                              THEN u8_to_vector(probe.ret.v)
                              ELSE vector_to_u8(probe.ret.v),
                   !.stage = "inverted"]
    /\ UNCHANGED <<svars, bvars, tvars>>

NextPure ==
    \/ Call_vector_to_u8
    \/ Call_u8_to_vector
    \/ Call_world_to_grid
    \/ CallBack

SpecPure == InitPure /\ [][NextPure]_vars

\* ------------------------------------------------------------------------
\* Properties of a built field
\* ------------------------------------------------------------------------
\* the in-grid, non-impassable cells next to c
Passable8(N, imp, c) ==
    {p \in {<<c[1] + dx, c[2] + dy>> : dx \in -1..1, dy \in -1..1} \ {c} :
        /\ p[1] \in 0..(N - 1)
        /\ p[2] \in 0..(N - 1)
        /\ p \notin imp}

\* Flooding from the target, layer by layer. st is [frontier, acc]: the
\* cells found last and all cells found.
Layer(N, imp, st) ==
    LET next == UNION {Passable8(N, imp, c) : c \in st.frontier} \ st.acc
    IN  [frontier |-> next, acc |-> st.acc \cup next]

Layer4(N, imp, st) == Layer(N, imp, Layer(N, imp, Layer(N, imp, Layer(N, imp, st))))

Layer16(N, imp, st) ==
    Layer4(N, imp, Layer4(N, imp, Layer4(N, imp, Layer4(N, imp, st))))

RECURSIVE Flood(_, _, _)
Flood(N, imp, st) ==
    IF st.frontier = {} THEN st.acc ELSE Flood(N, imp, Layer16(N, imp, st))

\* the cells connected to target through in-grid non-impassable cells
\* (8-neighbour steps), target included
Connected(N, target, imp) ==
    Flood(N, imp, [frontier |-> {target}, acc |-> {target}])

\* One step of the chain of directions, as a function on the grid: the
\* target stays, a cell with a direction code goes to the neighbour it
\* points to, anything else (a sentinel code, a step off the grid) is Lost.
Lost == <<-1, -1>>

ChainStep(N, field, target) ==
    [c \in Grid(N) \cup {Lost} |->
        IF c = target THEN target
        ELSE IF c = Lost THEN Lost
        ELSE LET d == u8_to_vector(field[c])
             IN  IF d.ok /\ d.v # <<0, 0>> /\ grid_area_contains(N, Add(c, d.v))
                   THEN Add(c, d.v)
                   ELSE Lost]

Twice(f) == [c \in DOMAIN f |-> f[f[c]]]

\* at least n steps of f, by repeated doubling
RECURSIVE Steps(_, _)
Steps(f, n) == IF n <= 1 THEN f ELSE Twice(Steps(f, (n + 1) \div 2))

\* Stepping from c by the stored directions reaches target within
\* N * N steps. (The step from a cell is fixed, so a chain that reaches the
\* target visits no cell twice and takes fewer than N * N steps; the target
\* stays, so the cells that reach it are those that N * N or more steps
\* take to it.)
ReachTarget(N, field, target) ==
    LET far == Steps(ChainStep(N, field, target), N * N)
    IN  {c \in Grid(N) : far[c] = target}

BuildDone == bstate.status \notin {"idle", "loop"}

BuildOk == bstate.status = "Ok"

\* C1: in a field built successfully for target t, the chain of directions
\* from every cell connected to t reaches t within N*N steps; and on the
\* 4x4 grid with target (2,2) and nothing impassable the direction at (0,0)
\* increases x or y and its chain reaches (2,2).
C1_ChainReachesTarget ==
    BuildOk =>
      /\ Connected(bn, btarget, bimpassable)
            \subseteq ReachTarget(bn, bstate.field, btarget)
      /\ LET b == build_flow_field(4, bchecks, <<2, 2>>, {})
             d == u8_to_vector(b.field[<<0, 0>>])
         IN  /\ b.status = "Ok"
             /\ d.ok /\ (d.v[1] > 0 \/ d.v[2] > 0)
             /\ <<0, 0>> \in ReachTarget(4, b.field, <<2, 2>>)

\* C4: in a field built successfully for target t, cell t holds TARGET.
C4_TargetHoldsTARGET == BuildOk => bstate.field[btarget] = TARGET

\* C5: in a field built successfully, every cell of the passability set
\* holds IMPASSABLE.
C5_BlockedHoldIMPASSABLE ==
    BuildOk => \A c \in bimpassable : bstate.field[c] = IMPASSABLE

\* C6: in a field built successfully, every cell that is neither the target
\* nor impassable holds a direction code whose neighbour is in the grid and
\* has a strictly lower cost than the cell.
C6_DirectionToLowerCost ==
    BuildOk =>
      \A c \in Grid(bn) \ ({btarget} \cup bimpassable) :
        /\ bstate.field[c] \in 0..7
        /\ LET next == Add(c, u8_to_vector(bstate.field[c]).v)
           IN  /\ grid_area_contains(bn, next)
               /\ bstate.costs[next] < bstate.costs[c]

\* C8 as claimed: for every passability set, a build whose target lies
\* outside the grid ends with OutOfBounds.
C8_OutsideIsOutOfBounds ==
    (BuildDone /\ ~grid_area_contains(bn, btarget))
      => bstate.status = "OutOfBounds"

\* C8 as amended: a build whose target lies outside the grid ends with
\* OutOfBounds unless the target is in the passability set, and with
\* TargetBlocked if it is; it never starts the wavefront.
C8_OutsideIsOutOfBoundsUnlessBlocked ==
    (bstate.status # "idle" /\ ~grid_area_contains(bn, btarget))
      => bstate.status =
           (IF btarget \in bimpassable THEN "TargetBlocked" ELSE "OutOfBounds")

C8_Witness ==
    /\ bstate.status = "OutOfBounds"
    /\ ~grid_area_contains(bn, btarget)
    /\ bimpassable # {}
    /\ \A c \in bimpassable : grid_area_contains(bn, c)

\* ------------------------------------------------------------------------
\* Properties of the cache and of the systems
\* ------------------------------------------------------------------------
BuildErrors == {"TargetBlocked", "OutOfBounds", "NoPathFound"}

\* the target cells of the live actors
ReferencedCells ==
    {c \in {world_to_grid(t) : t \in TargetPoints} :
        \E i \in ActorIds : actors[i].live /\ world_to_grid(actors[i].target) = c}

\* C2: a failed build never surfaces: the call announcing it returns, the
\* updater completes for every actor, and the affected actor gets the
\* straight-line fallback steering.
C2_BuildFailureNeverSurfaces ==
    last.op = "update" =>
      /\ ~crashed
      /\ Len(last.calls) = Cardinality(Live(actors))
      /\ \A k \in 1..Len(last.calls) :
            last.calls[k].outcome \in BuildErrors =>
              LET a == actors[last.calls[k].actor]
              IN  /\ last.calls[k].ok
                  /\ a.steering = normalize_or_zero(Sub(a.target, a.translation))

\* C3: a get_or_generate(t) that follows an earlier one with no eviction of
\* t in between returns the field the earlier one returned and builds
\* nothing, whatever was edited or requested in between.
C3_SecondCallServesCached ==
    \A k \in 1..Len(last.calls) :
      last.calls[k].prior.some =>
        /\ last.calls[k].ok
        /\ ~last.calls[k].built
        /\ last.calls[k].ret = last.calls[k].prior.field

\* a repeated call whose field a build from the present passability set
\* would not reproduce
C3_Witness ==
    \E k \in 1..Len(last.calls) :
      /\ last.calls[k].prior.some
      /\ LET b == build_flow_field(SysN, SysChecks, last.calls[k].target, impassable)
         IN  b.status # "Ok" \/ b.field # last.calls[k].ret

\* C7: after set_impassable(t), a build whose target is t ends with
\* TargetBlocked and produces no field, for every cell t, in or out of the
\* grid.
C7_BlockedTargetIsRefused ==
    /\ \A t \in CellsAround(SysN) :
          build_flow_field(SysN, SysChecks, t, Inserted(impassable, t)).status
            = "TargetBlocked"
    /\ \A t \in impassable :
          /\ build_flow_field(SysN, SysChecks, t, impassable).status = "TargetBlocked"
          /\ LET g == get_or_generate(EmptyMap, impassable, t)
             IN  ~g.ok /\ g.fields = EmptyMap

C7_Witness ==
    /\ <<1, 1>> \in impassable
    /\ build_flow_field(SysN, SysChecks, <<1, 1>>, impassable).status = "TargetBlocked"

\* C9: a run of the janitor leaves exactly the entries whose key is the
\* target cell of a live actor, each with its field unchanged; with no live
\* actor the cache is empty; with (0,0) cached and only (3,3) referenced,
\* (0,0) is evicted and the field for (3,3) stays.
C9_JanitorKeepsReferenced ==
    [][last'.op = "clean" =>
         /\ DOMAIN fields' = DOMAIN fields \cap ReferencedCells
         /\ \A k \in DOMAIN fields' : fields'[k] = fields[k]
         /\ last'.evicted = DOMAIN fields \ ReferencedCells
         /\ (Live(actors) = {} => fields' = EmptyMap)
         /\ (<<0, 0>> \in DOMAIN fields /\ ReferencedCells = {<<3, 3>>})
               => (<<0, 0>> \notin DOMAIN fields'
                   /\ (<<3, 3>> \in DOMAIN fields => <<3, 3>> \in DOMAIN fields'))
      ]_vars

C9_Witness ==
    /\ last.op = "clean"
    /\ last.evicted = {<<0, 0>>}
    /\ DOMAIN fields = {<<3, 3>>}
    /\ ReferencedCells = {<<3, 3>>}

\* C10: a second run of the janitor right after a run, the actors being the
\* same, changes nothing in the cache.
C10_JanitorIdempotent ==
    [][(last.op = "clean" /\ last'.op = "clean") =>
         /\ fields' = fields
         /\ last'.evicted = {}
      ]_vars

\* a run of the janitor that evicted something and kept something
C10_Witness ==
    /\ last.op = "clean"
    /\ last.evicted # {}
    /\ fields # EmptyMap

\* C11: in every tick the janitor runs only after the updater has sampled
\* every actor for that tick: eviction never precedes sampling within a
\* tick.
C11_JanitorAfterUpdater ==
    "update_clean_flow_field_cache" \in ran
        => "update_flow_field_generation" \in ran

\* C12: set_impassable and set_passable change only the passability set:
\* the cache keeps its keys and every cached field its contents, and a field
\* cached before the edit is served unchanged, without a build, afterwards.
C12_EditsChangeOnlyPassability ==
    [][(last'.op = "other" /\ actors' = actors) =>
         /\ DOMAIN fields' = DOMAIN fields
         /\ \A t \in DOMAIN fields :
               /\ fields'[t] = fields[t]
               /\ LET g == get_or_generate(fields', impassable', t)
                  IN  g.ok /\ ~g.built /\ g.ret = fields[t] /\ g.fields = fields
      ]_vars

\* the field for (3,3) is cached and (3,3) has since been made impassable
C12_Witness ==
    /\ last.op = "other"
    /\ <<3, 3>> \in DOMAIN fields
    /\ <<3, 3>> \in impassable

\* world positions to ask about: the centre of every cell of the grid and
\* of the cells just outside it, and an off-centre point of cell (0,0)
AskPoints == {Centre(c) : c \in CellsAround(SysN)} \cup {<<48, 16>>}

\* C13: after any sequence of set_impassable, set_passable, get_or_generate
\* and janitor runs, is_walkable(p) is false exactly when the most recent
\* set_* call on the cell of p was set_impassable (true if there was none),
\* whatever is cached and whatever the cached fields hold for that cell.
C13_WalkableFollowsLastEdit ==
    \A p \in AskPoints :
       is_walkable(impassable, p) = (world_to_grid(p) \notin recent)

\* a cached field still marks (1,1) impassable, the most recent call on
\* (1,1) was not set_impassable, and (1,1) is walkable
C13_Witness ==
    /\ <<1, 1>> \notin recent
    /\ \E t \in DOMAIN fields : fields[t][<<1, 1>>] = U8_MAX
    /\ is_walkable(impassable, Centre(<<1, 1>>))

\* what the updater read for its k-th call: the sample taken from the
\* field the call returned, at the position of the call's actor
SampleOf(k) ==
    field_get(SysN, last.calls[k].ret, actors[last.calls[k].actor].translation)

\* C14: the read-only operations are total: is_walkable answers for every
\* world position, and sampling a built field at an actor's position
\* returns a vector for every position, in or out of the grid.
C14_ReadsNeverFail ==
    /\ \A p \in AskPoints : is_walkable(impassable, p) \in BOOLEAN
    /\ last.op = "update" =>
          \A k \in 1..Len(last.calls) :
             last.calls[k].ok => SampleOf(k).ok

\* the 8 unit offsets
Offsets == Range(orthogonal(<<0, 0>>)) \cup Range(diagonals(<<0, 0>>))

\* C15: the encoding is a bijection on the 8 directions: each of the 8 unit
\* offsets is encoded to a code in 0..7 that decodes back to the offset, the
\* 8 codes are distinct, each code in 0..7 decodes to an offset that encodes
\* back to the code, and TARGET and IMPASSABLE decode only to the zero
\* vector.
C15_EncodingIsBijection ==
    /\ (probe.fn = "vector_to_u8" /\ probe.arg \in Offsets) =>
          /\ probe.stage # "ready" => (probe.ret.ok /\ probe.ret.v \in UP..UP_LEFT)
          /\ probe.stage = "inverted" => probe.back = Ok(probe.arg)
    /\ (probe.fn = "u8_to_vector" /\ probe.arg \in UP..UP_LEFT) =>
          /\ probe.stage # "ready" => (probe.ret.ok /\ probe.ret.v \in Offsets)
          /\ probe.stage = "inverted" => probe.back = Ok(probe.arg)
    /\ (probe.fn = "u8_to_vector" /\ probe.arg \in {TARGET, IMPASSABLE}
           /\ probe.stage # "ready") => probe.ret = Ok(<<0, 0>>)
    /\ {vector_to_u8(d).v : d \in Offsets} = UP..UP_LEFT
    /\ Cardinality(Offsets) = Cardinality(UP..UP_LEFT)

\* up-left has been encoded and the code decoded
C15_Witness ==
    /\ probe.fn = "vector_to_u8"
    /\ probe.arg = <<-1, 1>>
    /\ probe.stage = "inverted"
    /\ probe.ret = Ok(UP_LEFT)

\* the calls of the last updater run whose actor was sampled
Sampled == {k \in 1..Len(last.calls) : last.calls[k].ok /\ SampleOf(k).ok}

\* the code the field of call k holds at the cell of the call's actor
CodeUnder(k) ==
    last.calls[k].ret[world_to_grid(actors[last.calls[k].actor].translation)]

\* C16: the steering the updater writes for an actor is the direction its
\* target's field holds at the actor's cell when that direction is not
\* zero; when it is zero (the cell is the target cell or holds a sentinel
\* code) the steering is the unit vector from the actor's position to its
\* exact target position, and zero when position and target coincide.
C16_SteeringIsSampleOrStraightLine ==
    \A k \in Sampled :
       LET a == actors[last.calls[k].actor]
           cell == world_to_grid(a.translation)
           sample == SampleOf(k).v
       IN  /\ sample # <<0, 0>> => a.steering = [kind |-> "vec", v |-> sample]
           /\ (sample = <<0, 0>> /\ a.translation # a.target) =>
                 a.steering = [kind |-> "unit", v |-> Sub(a.target, a.translation)]
           /\ (sample = <<0, 0>> /\ a.translation = a.target) =>
                 a.steering = [kind |-> "vec", v |-> <<0, 0>>]
           /\ sample = <<0, 0>> <=>
                 (cell = last.calls[k].target
                    \/ CodeUnder(k) \in {TARGET, IMPASSABLE, U8_MAX})

\* one updater run that gave an actor a sampled direction and the walker,
\* standing on a cell its field marks impassable, the straight line
C16_Witness ==
    /\ \E k \in Sampled : SampleOf(k).v # <<0, 0>>
    /\ \E k \in Sampled :
          /\ last.calls[k].actor = Walker
          /\ CodeUnder(k) = U8_MAX
          /\ actors[Walker].steering.kind = "unit"

\* the sampled calls whose actor stands in its own target cell
SampledInTargetCell ==
    {k \in Sampled :
        world_to_grid(actors[last.calls[k].actor].translation) = last.calls[k].target}

\* C17 as stated: an actor that stands inside its own target cell is given
\* the zero steering vector.
C17_ZeroInsideTargetCell ==
    \A k \in SampledInTargetCell :
       actors[last.calls[k].actor].steering = [kind |-> "vec", v |-> <<0, 0>>]

\* C17: an actor that stands inside its own target cell is given the zero
\* steering vector when its position is exactly its target position, and
\* the unit vector towards the target position anywhere else in the cell.
C17_ZeroExactlyAtTarget ==
    \A k \in SampledInTargetCell :
       LET a == actors[last.calls[k].actor]
       IN  /\ a.translation = a.target =>
                 a.steering = [kind |-> "vec", v |-> <<0, 0>>]
           /\ a.translation # a.target =>
                 a.steering = [kind |-> "unit", v |-> Sub(a.target, a.translation)]

\* the walker, standing exactly at its target, has been sampled
C17_Witness ==
    \E k \in SampledInTargetCell :
       /\ last.calls[k].actor = Walker
       /\ actors[Walker].translation = actors[Walker].target
       /\ actors[Walker].steering = [kind |-> "vec", v |-> <<0, 0>>]

\* C18: a build, once started, runs to completion: for every target and
\* every passability set, cells outside the grid included, it ends with a
\* field or with one of OutOfBounds, TargetBlocked and NoPathFound, and the
\* wavefront loop dequeues each cell of the grid at most once.
C18_BuildAlwaysCompletes ==
    /\ BuildDone => bstate.status \in {"Ok"} \cup BuildErrors
    /\ bstate.status # "idle" =>
          /\ Len(bstate.popped) <= bn * bn
          /\ \A i, j \in 1..Len(bstate.popped) :
                bstate.popped[i] = bstate.popped[j] => i = j

\* floor(f / cell_size) cast to unsigned, for a float that is an integer
\* or a multiple of 2^32: the cast takes a negative quotient to 0
FloorCast(f) ==
    IF f.beyond > 0 THEN f.beyond * (U32_MAX_CELLS + 1)
    ELSE IF f.units \div CELL_SIZE < 0 THEN 0
    ELSE f.units \div CELL_SIZE

\* C19 as stated: world_to_grid never fails and returns, for every world
\* position (x, y), the cell (floor(x / 64), floor(y / 64)) cast to
\* unsigned.
C19_CellIsFloorOfQuotient ==
    (probe.fn = "world_to_grid" /\ probe.stage = "returned") =>
       probe.ret = Ok(<<FloorCast(probe.arg[1]), FloorCast(probe.arg[2])>>)

\* C19: world_to_grid never fails and changes nothing; for a coordinate
\* below 2^32 it returns floor(x / 64) cast to unsigned (0 for a negative
\* coordinate), and for a coordinate of 2^32 or more, which the cast to u32
\* saturates before the division, u32::MAX / 64.
C19_CellIsQuotientOfSaturatedCast ==
    (probe.fn = "world_to_grid" /\ probe.stage = "returned") =>
       /\ probe.ret.ok
       /\ \A i \in 1..2 :
             probe.ret.v[i] = IF probe.arg[i].beyond > 0 THEN U32_MAX_CELLS
                              ELSE FloorCast(probe.arg[i])
       /\ SysIdle

\* a position left of the origin and past u32::MAX upwards has been mapped
C19_Witness ==
    /\ probe.fn = "world_to_grid"
    /\ probe.stage = "returned"
    /\ probe.arg = <<F32(-1), Beyond(1)>>
    /\ probe.ret = Ok(<<0, U32_MAX_CELLS>>)

\* the live actors that have not arrived: their position is not their target
Underway == {i \in Live(actors) : actors[i].translation # actors[i].target}

\* C20: an actor's target is cleared when the actor arrives at it, so once
\* every actor that targeted cell t has arrived t is no longer referenced
\* and its field is evicted: the janitor run that follows an updater run
\* leaves no field whose every referencing actor stood at its target in
\* that updater run.
C20_ArrivedTargetsAreEvicted ==
    [][(last.op = "update" /\ last'.op = "clean") =>
         \A t \in DOMAIN fields' :
            \E i \in Underway : world_to_grid(actors[i].target) = t
      ]_vars

\* C21: during a build no impassable cell is enqueued or dequeued, and in
\* the field built no cell's direction points to an impassable cell.
C21_NeverOntoImpassable ==
    /\ bstate.status # "idle" =>
          (Range(bstate.queue) \cup Range(bstate.popped)) \cap bimpassable = {}
    /\ BuildOk =>
          \A c \in Grid(bn) \ (bimpassable \cup {btarget}) :
             LET d == u8_to_vector(bstate.field[c])
             IN  (d.ok /\ d.v # <<0, 0>>) => Add(c, d.v) \notin bimpassable

\* the positions of pos, in order, that are in the grid and not yet seen
Unvisited(N, seen, pos) ==
    SelectSeq(pos, LAMBDA p : grid_area_contains(N, p) /\ p \notin seen)

\* C22: the wavefront assigns each cost once, in FIFO order: when a cell of
\* cost c is dequeued, its in-grid orthogonal neighbours not yet visited
\* are enqueued with cost c + 1, then its in-grid diagonal neighbours not
\* yet visited with cost c + 2; no other cell is enqueued and no other cost
\* changes.
C22_CostsAssignedOnceInFifoOrder ==
    [][(bstate.status = "loop" /\ bstate.queue # <<>>) =>
         LET root == Head(bstate.queue)
             c == bstate.costs[root]
             orth == Unvisited(bn, bstate.seen, orthogonal(root))
             diag == Unvisited(bn, bstate.seen \cup Range(orthogonal(root)),
                               diagonals(root))
         IN  /\ bstate'.popped = Append(bstate.popped, root)
             /\ bstate'.queue = Tail(bstate.queue) \o orth \o diag
             /\ \A p \in Range(orth) : bstate'.costs[p] = c + 1
             /\ \A p \in Range(diag) : bstate'.costs[p] = c + 2
             /\ \A p \in Grid(bn) \ (Range(orth) \cup Range(diag)) :
                   bstate'.costs[p] = bstate.costs[p]
             /\ \A p \in Range(orth) \cup Range(diag) :
                   p \notin Range(bstate.queue) \cup Range(bstate.popped)
                       \cup bimpassable \cup {btarget}
      ]_vars

\* up-right, down-right, down-left, up-left, up, right, down, left
StatedOrder ==
    << <<1, 1>>, <<1, -1>>, <<-1, -1>>, <<-1, 1>>,
       <<0, 1>>, <<1, 0>>, <<0, -1>>, <<-1, 0>> >>

\* the places in StatedOrder of the in-grid neighbours of c of least cost
Cheapest(N, costs, c) ==
    LET inside == {i \in DOMAIN StatedOrder :
                      grid_area_contains(N, Add(c, StatedOrder[i]))}
    IN  {i \in inside :
            \A j \in inside :
               costs[Add(c, StatedOrder[i])] <= costs[Add(c, StatedOrder[j])]}

\* the dequeued cells to look at: while the loop runs the cell dequeued
\* last, whose direction has just been stored; after the build all of them
\* but the target, whose direction the last lines overwrite
Directed ==
    IF bstate.status = "loop" /\ bstate.popped # <<>>
      THEN {bstate.popped[Len(bstate.popped)]}
    ELSE IF bstate.status = "Ok" THEN Range(bstate.popped) \ {btarget}
    ELSE {}

\* C23: the direction stored for a dequeued cell points to an in-grid
\* neighbour of least cost among its in-grid neighbours, and among several
\* of least cost to the one that comes first in the order up-right,
\* down-right, down-left, up-left, up, right, down, left.
C23_DirectionToFirstCheapest ==
    \A c \in Directed :
       LET first == CHOOSE i \in Cheapest(bn, bstate.costs, c) :
                       \A j \in Cheapest(bn, bstate.costs, c) : i <= j
       IN  /\ Cheapest(bn, bstate.costs, c) # {}
           /\ u8_to_vector(bstate.field[c]) = Ok(StatedOrder[first])

\* the build is over and a dequeued cell has two neighbours of the same
\* least cost
C23_Witness ==
    /\ BuildOk
    /\ \E c \in Directed : Cardinality(Cheapest(bn, bstate.costs, c)) > 1

\* C24: for a target in the grid and not impassable the build ends with
\* NoPathFound only on a cell that is cut off from the target: not because
\* the in-grid neighbours of the target are all impassable, and not on a
\* cell other than the target that the wavefront reached.
C24_NoPathFoundOnlyWhenCutOff ==
    bstate.status = "NoPathFound" =>
       LET at == bstate.popped[Len(bstate.popped)]
       IN  /\ at # btarget
           /\ at \notin Connected(bn, btarget, bimpassable)

\* C25: during a build on the 32x32 grid the cost computed for a newly
\* visited cell never exceeds 254: the u8 addition never overflows (no
\* panic, and no cell but the target is left with a wrapped cost of 0), and
\* no cell outside the passability set is given the cost 255.
C25_CostNeverOverflows ==
    (bn = GRID_SIZE /\ bstate.status # "idle") =>
       /\ bstate.status # "OverflowPanic"
       /\ \A c \in (Range(bstate.queue) \cup Range(bstate.popped)) \ {btarget} :
             /\ bstate.costs[c] >= 1
             /\ bstate.costs[c] <= U8_MAX - 1

\* C26: in a successful build the cells the wavefront dequeues are exactly
\* the in-grid cells connected to the target by 8-neighbour steps through
\* in-grid cells outside the passability set; every other cell outside the
\* passability set keeps the code 0 and the cost 0.
C26_DequeuedAreTheConnected ==
    BuildOk =>
       /\ Range(bstate.popped) = Connected(bn, btarget, bimpassable)
       /\ \A c \in Grid(bn) \ (Connected(bn, btarget, bimpassable) \cup bimpassable) :
             bstate.field[c] = 0 /\ bstate.costs[c] = 0

\* a successful build that never dequeued some cell outside the
\* passability set
C26_Witness ==
    /\ BuildOk
    /\ \E c \in Grid(bn) \ (Range(bstate.popped) \cup bimpassable) :
          bstate.field[c] = 0 /\ bstate.costs[c] = 0

\* C27: when the updater has completed and the janitor runs next, the keys
\* of the cache are afterwards exactly the target cells of the live actors:
\* each of them is cached, nothing else is, and the cache has no more
\* entries than there are live actors.
C27_CacheKeysAreLiveTargets ==
    [][(last.op = "update" /\ ~crashed /\ last'.op = "clean") =>
         /\ DOMAIN fields' = ReferencedCells'
         /\ Cardinality(DOMAIN fields') <= Cardinality(Live(actors'))
      ]_vars

\* the janitor has evicted an entry and kept the one, served by the
\* updater, that every live actor now targets
C27_Witness ==
    /\ last.op = "clean"
    /\ last.evicted # {}
    /\ Cardinality(Live(actors)) > 1
    /\ fields # EmptyMap
    /\ DOMAIN served = DOMAIN fields
    /\ DOMAIN fields = ReferencedCells

\* C28: every cache entry is the field built for its key from the
\* passability set in force when it was inserted, and keeps that content
\* while it stays cached; a request that finds no entry, one evicted earlier
\* included, returns the field built from the passability set of that
\* moment.
C28_EntriesBuiltFromSetAtInsertion ==
    [][/\ \A t \in DOMAIN fields' \ DOMAIN fields :
             fields'[t] = build_flow_field(SysN, SysChecks, t, impassable).field
       /\ \A t \in DOMAIN fields' \cap DOMAIN fields : fields'[t] = fields[t]
       /\ last'.op = "update" =>
             \A k \in 1..Len(last'.calls) :
                (last'.calls[k].built /\ last'.calls[k].ok) =>
                   last'.calls[k].ret =
                      build_flow_field(SysN, SysChecks, last'.calls[k].target,
                                       impassable).field
      ]_vars

\* the updater has just built a field that marks an impassable cell, next
\* to a cached field built before that cell was made impassable
C28_Witness ==
    /\ last.op = "update"
    /\ \E k \in 1..Len(last.calls), u \in DOMAIN fields :
          /\ last.calls[k].built /\ last.calls[k].ok
          /\ \E c \in impassable :
                /\ last.calls[k].ret[c] = U8_MAX
                /\ fields[u][c] # U8_MAX

\* C29: in whatever order the three systems run within a tick, every field
\* the updater samples is the cache's entry for the actor's target cell at
\* that moment, an entry missing from the cache being built and inserted
\* before it is sampled; a request that fails ends the run with no sample
\* taken.
C29_SamplesComeFromTheCache ==
    last.op = "update" =>
       \A k \in 1..Len(last.calls) :
          /\ last.calls[k].ok =>
                /\ last.calls[k].target \in DOMAIN fields
                /\ fields[last.calls[k].target] = last.calls[k].ret
          /\ ~last.calls[k].ok => (crashed /\ k = Len(last.calls))
          /\ ~last.calls[k].built =>
                /\ last.calls[k].prior.some
                /\ last.calls[k].prior.field = last.calls[k].ret

\* the updater ran after the janitor within the tick and had to build the
\* field of a target it had none for, while another actor's was cached
C29_Witness ==
    /\ last.op = "update"
    /\ {"update_clean_flow_field_cache", "update_flow_field_generation"}
          \subseteq ran
    /\ \E k \in 1..Len(last.calls) : last.calls[k].built /\ last.calls[k].ok
    /\ \E k \in 1..Len(last.calls) : ~last.calls[k].built

\* the two cells that share the corner crossed by the diagonal step d from c
CornerCells(c, d) == {<<c[1] + d[1], c[2]>>, <<c[1], c[2] + d[2]>>}

\* C30: no cell is given a diagonal direction whose step squeezes through a
\* corner: the two in-grid cells orthogonally adjacent to the step are
\* never both impassable.
C30_NoDiagonalThroughCorner ==
    \A c \in Directed \ {btarget} :
       LET d == u8_to_vector(bstate.field[c])
       IN  (d.ok /\ d.v[1] # 0 /\ d.v[2] # 0) =>
              ~(/\ CornerCells(c, d.v) \subseteq Grid(bn)
                /\ CornerCells(c, d.v) \subseteq bimpassable)

=============================================================================
